---- MODULE Spec2Model ----
(***************************************************************************)
(* Model of src/src/types/name.rs: the Name / Label value types, the       *)
(* constructors of Name (checked and precondition-trusting), labels(),     *)
(* is_absolute() and the ROOT / EMPTY constants.                           *)
(*                                                                         *)
(* A byte is an integer 0..255; a &[u8], a SmallVec<[u8; 36]> and the      *)
(* UTF-8 buffer of a String / &str are sequences of bytes.  A Result is a  *)
(* record [tag, kind, value, position]: Ok(Name{value}) or Err(kind) with  *)
(* the String payload in value and the usize payload in position.          *)
(***************************************************************************)
EXTENDS Integers, Sequences, FiniteSets, TLC

\* ------------------------------------------------------------------------
\* Bytes and code points
\* ------------------------------------------------------------------------

\* '.' as u8 / b'.'
DOT == 46

\* name.len() > 255
MaxNameLen == 255

\* split.len() > 63
MaxLabelLen == 63

\* The byte 'x' the tests build their labels from, and its upper-case form
LowerX == 120
UpperX == LowerX - 32

\* U+2488 DIGIT ONE FULL STOP, which the codec rejects
\* (tests_parsing::not_allowed_unicode_characters)
DigitOneFullStop == 9352

\* The code points of the Tamil label of tests_parsing::allowed_unicode_characters
TamilLabel == <<2980, 2990, 3007, 2996, 3021>>

\* Largest number of dot-separated labels of a generated input
MaxLabels == 4

NoBytes == <<>>

Repeat(b, n) == [i \in 1..n |-> b]

\* ------------------------------------------------------------------------
\* Results
\* ------------------------------------------------------------------------

Ok(v) == [tag |-> "Ok", kind |-> "Name", value |-> v, position |-> 0]
ErrString(k, s) == [tag |-> "Err", kind |-> k, value |-> s, position |-> 0]
ErrPosition(k, p) == [tag |-> "Err", kind |-> k, value |-> NoBytes, position |-> p]
ErrPlain(k) == [tag |-> "Err", kind |-> k, value |-> NoBytes, position |-> 0]
NoResult == [tag |-> "None", kind |-> "None", value |-> NoBytes, position |-> 0]

\* ------------------------------------------------------------------------
\* <[u8]>::split(|v| *v == b'.'): Split::next looks for the position of the
\* next separator in what is left; it yields the bytes before it and keeps
\* the bytes after it, or yields everything left and finishes.  An empty
\* slice yields one empty segment.
\* ------------------------------------------------------------------------

Separators(s, from) == {p \in from..Len(s) : s[p] = DOT}

RECURSIVE SplitFrom(_, _)
SplitFrom(s, from) ==
    LET seps == Separators(s, from) IN
    IF seps = {} THEN <<SubSeq(s, from, Len(s))>>
    ELSE LET idx == CHOOSE p \in seps : \A q \in seps : p <= q
         IN  <<SubSeq(s, from, idx - 1)>> \o SplitFrom(s, idx + 1)

split(s) == SplitFrom(s, 1)

\* ------------------------------------------------------------------------
\* String::from_utf8 / str::chars / str::as_bytes: UTF-8 as std implements
\* it.  A sequence starts at every byte that is not a continuation byte;
\* the bytes are UTF-8 when the first byte starts a sequence and every
\* sequence is well formed and ends where the next one starts.
\* ------------------------------------------------------------------------

IsCont(b) == b >= 128 /\ b <= 191

\* Number of bytes of the sequence whose first byte is b0 (0: no such sequence)
Utf8Width(b0) ==
    IF b0 < 128 THEN 1
    ELSE IF b0 >= 194 /\ b0 <= 223 THEN 2
    ELSE IF b0 >= 224 /\ b0 <= 239 THEN 3
    ELSE IF b0 >= 240 /\ b0 <= 244 THEN 4
    ELSE 0

Utf8WellFormedAt(b, i) ==
    LET w == Utf8Width(b[i]) IN
    /\ w > 0
    /\ i + w - 1 <= Len(b)
    /\ \A j \in (i + 1)..(i + w - 1) : IsCont(b[j])
    /\ (i + w <= Len(b) => ~IsCont(b[i + w]))
    /\ (b[i] = 224 => b[i + 1] >= 160)
    /\ (b[i] = 237 => b[i + 1] <= 159)
    /\ (b[i] = 240 => b[i + 1] >= 144)
    /\ (b[i] = 244 => b[i + 1] <= 143)

IsUtf8(b) ==
    /\ (Len(b) > 0 => ~IsCont(b[1]))
    /\ \A i \in 1..Len(b) : IsCont(b[i]) \/ Utf8WellFormedAt(b, i)

Utf8CharAt(b, i) ==
    LET w == Utf8Width(b[i]) IN
    IF w = 1 THEN b[i]
    ELSE IF w = 2 THEN (b[i] - 192) * 64 + (b[i + 1] - 128)
    ELSE IF w = 3
         THEN (b[i] - 224) * 4096 + (b[i + 1] - 128) * 64 + (b[i + 2] - 128)
    ELSE (b[i] - 240) * 262144 + (b[i + 1] - 128) * 4096
         + (b[i + 2] - 128) * 64 + (b[i + 3] - 128)

\* str::chars of the bytes lo..hi of a valid UTF-8 buffer, by halving
RECURSIVE Utf8Chars(_, _, _)
Utf8Chars(b, lo, hi) ==
    IF lo > hi THEN <<>>
    ELSE IF lo = hi
         THEN IF IsCont(b[lo]) THEN <<>> ELSE <<Utf8CharAt(b, lo)>>
    ELSE LET mid == (lo + hi) \div 2
         IN  Utf8Chars(b, lo, mid) \o Utf8Chars(b, mid + 1, hi)

IsAscii(s) == \A i \in 1..Len(s) : s[i] < 128

chars(b) == IF IsAscii(b) THEN b ELSE Utf8Chars(b, 1, Len(b))

Utf8Char(c) ==
    IF c < 128 THEN <<c>>
    ELSE IF c < 2048 THEN <<192 + (c \div 64), 128 + (c % 64)>>
    ELSE IF c < 65536
         THEN <<224 + (c \div 4096), 128 + ((c \div 64) % 64), 128 + (c % 64)>>
    ELSE <<240 + (c \div 262144), 128 + ((c \div 4096) % 64),
           128 + ((c \div 64) % 64), 128 + (c % 64)>>

\* The UTF-8 bytes of the code points lo..hi of cs, by halving
RECURSIVE Utf8Bytes(_, _, _)
Utf8Bytes(cs, lo, hi) ==
    IF lo > hi THEN <<>>
    ELSE IF lo = hi THEN Utf8Char(cs[lo])
    ELSE LET mid == (lo + hi) \div 2
         IN  Utf8Bytes(cs, lo, mid) \o Utf8Bytes(cs, mid + 1, hi)

Utf8Encode(cs) == IF IsAscii(cs) THEN cs ELSE Utf8Bytes(cs, 1, Len(cs))

\* ------------------------------------------------------------------------
\* idna::domain_to_ascii under Config::default() (the four setters called in
\* from_text return a new Config that is dropped, and name the default
\* values anyway): UTS-46 mapping of every code point, then per label either
\* the ASCII label unchanged or "xn--" and its punycode (RFC 3492).  Of the
\* mapping table the model keeps: ASCII upper case maps to lower case,
\* U+2488 is disallowed, every other code point maps to itself.  Empty
\* labels pass through, lengths are not verified (verify_dns_length false).
\* ------------------------------------------------------------------------

PunyDigit(d) == IF d < 26 THEN 97 + d ELSE 22 + d

PunyThreshold(k, bias) ==
    IF k <= bias THEN 1 ELSE IF k >= bias + 26 THEN 26 ELSE k - bias

RECURSIVE PunyVarInt(_, _, _)
PunyVarInt(q, k, bias) ==
    LET t == PunyThreshold(k, bias) IN
    IF q < t THEN <<PunyDigit(q)>>
    ELSE <<PunyDigit(t + ((q - t) % (36 - t)))>>
         \o PunyVarInt((q - t) \div (36 - t), k + 36, bias)

RECURSIVE PunyAdaptLoop(_, _)
PunyAdaptLoop(delta, k) ==
    IF delta > 455 THEN PunyAdaptLoop(delta \div 35, k + 36)
    ELSE k + ((36 * delta) \div (delta + 38))

PunyAdapt(delta, numpoints, first) ==
    LET d1 == IF first THEN delta \div 700 ELSE delta \div 2
    IN  PunyAdaptLoop(d1 + (d1 \div numpoints), 0)

\* One pass over the label for the current code point st.n
RECURSIVE PunyPass(_, _, _, _)
PunyPass(cs, i, b, st) ==
    IF i > Len(cs) THEN st
    ELSE IF cs[i] < st.n
         THEN PunyPass(cs, i + 1, b, [st EXCEPT !.delta = @ + 1])
    ELSE IF cs[i] = st.n
         THEN PunyPass(cs, i + 1, b,
                [st EXCEPT !.out = @ \o PunyVarInt(st.delta, 36, st.bias),
                           !.bias = PunyAdapt(st.delta, st.h + 1, st.h = b),
                           !.delta = 0,
                           !.h = @ + 1])
    ELSE PunyPass(cs, i + 1, b, st)

RECURSIVE PunyLoop(_, _, _)
PunyLoop(cs, b, st) ==
    IF st.h >= Len(cs) THEN st.out
    ELSE LET rest == {cs[i] : i \in {j \in 1..Len(cs) : cs[j] >= st.n}}
             m == CHOOSE c \in rest : \A d \in rest : c <= d
             s1 == [st EXCEPT !.delta = @ + (m - st.n) * (st.h + 1), !.n = m]
             s2 == PunyPass(cs, 1, b, s1)
         IN  PunyLoop(cs, b, [s2 EXCEPT !.delta = @ + 1, !.n = @ + 1])

punycode_encode(cs) ==
    LET basic == SelectSeq(cs, LAMBDA c : c < 128)
        b == Len(basic)
    IN  PunyLoop(cs, b,
                 [n |-> 128, delta |-> 0, bias |-> 72, h |-> b,
                  out |-> IF b > 0 THEN Append(basic, 45) ELSE basic])

\* "xn--"
PUNYCODE_PREFIX == <<120, 110, 45, 45>>

Disallowed(c) == c = DigitOneFullStop

map_char(c) == IF c >= 65 /\ c <= 90 THEN c + 32 ELSE c

label_to_ascii(l) == IF IsAscii(l) THEN l ELSE PUNYCODE_PREFIX \o punycode_encode(l)

RECURSIVE JoinLabels(_, _)
JoinLabels(ls, i) ==
    IF i > Len(ls) THEN <<>>
    ELSE (IF i > 1 THEN <<DOT>> ELSE <<>>) \o label_to_ascii(ls[i]) \o JoinLabels(ls, i + 1)

domain_to_ascii(name) ==
    LET cs == chars(name) IN
    IF \E i \in 1..Len(cs) : Disallowed(cs[i])
    THEN [ok |-> FALSE, text |-> NoBytes]
    ELSE LET mapped == [i \in 1..Len(cs) |-> map_char(cs[i])]
         IN  [ok |-> TRUE, text |-> JoinLabels(split(mapped), 1)]

\* ------------------------------------------------------------------------
\* impl Name
\* ------------------------------------------------------------------------

\* labels() as str::split_terminator would give them: no trailing empty view
labels_split_terminator(value) ==
    LET ls == split(value) IN
    IF Len(ls) > 1 /\ ls[Len(ls)] = <<>> THEN SubSeq(ls, 1, Len(ls) - 1) ELSE ls

labels(value) == split(value)

\* is_absolute() with the length test off by one
is_absolute_len_gt_1(value) == Len(value) > 1 /\ value[Len(value)] = DOT

is_absolute(value) == Len(value) > 0 /\ value[Len(value)] = DOT

\* from_bytes_raw keeping only what fits the SmallVec's inline buffer
from_bytes_raw_inline_only(name) ==
    Ok(SubSeq(name, 1, IF Len(name) < 36 THEN Len(name) ELSE 36))

from_bytes_raw(name) == Ok(name)

\* The loop with `>=` for `>` in the label length test
RECURSIVE CheckSplits_ge(_, _, _)
CheckSplits_ge(name, splits, i) ==
    IF i > Len(splits) THEN from_bytes_raw(name)
    ELSE IF Len(splits[i]) >= MaxLabelLen
         THEN ErrString("LabelTooLong", splits[i])
    ELSE IF splits[i] = <<>> /\ i < Len(splits)
         THEN ErrPosition("EmptyLabel", i - 1)
    ELSE CheckSplits_ge(name, splits, i + 1)

\* The loop reporting a one-based position
RECURSIVE CheckSplits_one_based(_, _, _)
CheckSplits_one_based(name, splits, i) ==
    IF i > Len(splits) THEN from_bytes_raw(name)
    ELSE IF Len(splits[i]) > MaxLabelLen
         THEN ErrString("LabelTooLong", splits[i])
    ELSE IF splits[i] = <<>> /\ i < Len(splits)
         THEN ErrPosition("EmptyLabel", i)
    ELSE CheckSplits_one_based(name, splits, i + 1)

\* The loop reporting the whole name for the label that is too long
RECURSIVE CheckSplits_reports_name(_, _, _)
CheckSplits_reports_name(name, splits, i) ==
    IF i > Len(splits) THEN from_bytes_raw(name)
    ELSE IF Len(splits[i]) > MaxLabelLen
         THEN ErrString("LabelTooLong", name)
    ELSE IF splits[i] = <<>> /\ i < Len(splits)
         THEN ErrPosition("EmptyLabel", i - 1)
    ELSE CheckSplits_reports_name(name, splits, i + 1)

\* The while-let loop over name.split(..).enumerate().peekable(): i is the
\* one-based index of the segment taken by splits.next(), position is i - 1,
\* and splits.peek().is_some() is i < Len(splits).
RECURSIVE CheckSplits(_, _, _)
CheckSplits(name, splits, i) ==
    IF i > Len(splits) THEN from_bytes_raw(name)
    ELSE IF Len(splits[i]) > MaxLabelLen
         THEN ErrString("LabelTooLong", splits[i])
    ELSE IF splits[i] = <<>> /\ i < Len(splits)
         THEN ErrPosition("EmptyLabel", i - 1)
    ELSE CheckSplits(name, splits, i + 1)

\* from_bytes_ascii without the test of the name's length
from_bytes_ascii_no_length_check(name) == CheckSplits(name, split(name), 1)

\* from_bytes_ascii testing the name's length after the labels
from_bytes_ascii_labels_first(name) ==
    LET r == CheckSplits(name, split(name), 1) IN
    IF r.tag = "Err" THEN r
    ELSE IF Len(name) > MaxNameLen THEN ErrString("NameTooLarge", name)
    ELSE r

from_bytes_ascii(name) ==
    IF Len(name) > MaxNameLen THEN ErrString("NameTooLarge", name)
    ELSE CheckSplits(name, split(name), 1)

from_text_ascii(name) == from_bytes_ascii(name)

from_text(name) ==
    LET idna_domain == domain_to_ascii(name) IN
    IF ~idna_domain.ok THEN ErrPlain("IDNAError")
    ELSE from_text_ascii(idna_domain.text)

from_str(name) == from_text(name)

\* from_bytes with a length test of its own, off by one
from_bytes_own_length_check(name) ==
    IF ~IsUtf8(name) THEN ErrPlain("Utf8Error")
    ELSE IF Len(name) >= MaxNameLen THEN ErrString("NameTooLarge", name)
    ELSE from_str(name)

from_bytes(name) ==
    IF ~IsUtf8(name) THEN ErrPlain("Utf8Error") ELSE from_str(name)

try_from_str(value) == from_str(value)

try_from_bytes(value) ==
    IF ~IsUtf8(value) THEN ErrPlain("Utf8Error") ELSE from_str(value)

try_from_string(value) == from_str(value)

ROOT == from_bytes_raw(<<DOT>>).value

EMPTY == from_bytes_raw(<<>>).value

\* ------------------------------------------------------------------------
\* The caller's inputs: up to MaxLabels labels joined by '.', with or without
\* a trailing '.'.  A label is empty, one byte, MaxLabelLen bytes or one
\* more, in lower or upper case; the first label may also be the Tamil
\* label, the rejected code point, or a byte that is not UTF-8.
\* ------------------------------------------------------------------------

CoreLabels ==
    {<<>>, Repeat(LowerX, 1), Repeat(LowerX, MaxLabelLen),
     Repeat(LowerX, MaxLabelLen + 1), Repeat(UpperX, MaxLabelLen)}

SpecialLabels ==
    {Repeat(UpperX, 1), Utf8Encode(TamilLabel),
     Utf8Encode(<<DigitOneFullStop>>), <<255>>}

RECURSIVE Names(_)
Names(n) ==
    IF n = 1 THEN CoreLabels \cup SpecialLabels
    ELSE LET shorter == Names(n - 1)
         IN  shorter \cup {p \o <<DOT>> \o c : p \in shorter, c \in CoreLabels}

Inputs == LET ns == Names(MaxLabels) IN ns \cup {n \o <<DOT>> : n \in ns}

\* ------------------------------------------------------------------------
\* State: one caller holding `input`, the constructor it called (op) and what
\* it returned (result), then what labels(), is_absolute() and a second
\* from_bytes on the Name's own bytes (Deref<Target = [u8]>) returned.
\* ------------------------------------------------------------------------

VARIABLES input, pc, op, result, called, lbls, absolute, again

vars == <<input, pc, op, result, called, lbls, absolute, again>>

CheckedPaths ==
    {"from_text", "from_bytes", "from_str",
     "try_from_str", "try_from_bytes", "try_from_string"}

Init ==
    /\ input \in Inputs
    /\ pc = "start"
    /\ op = "none"
    /\ result = NoResult
    /\ called = {}
    /\ lbls = <<>>
    /\ absolute = FALSE
    /\ again = NoResult

Return(o, r) ==
    /\ pc = "start"
    /\ pc' = "returned"
    /\ op' = o
    /\ result' = r
    /\ UNCHANGED <<input, called, lbls, absolute, again>>

\* The &str constructors take `input` only when it is UTF-8 (a &str is).
InputIsStr == pc = "start" /\ IsUtf8(input) = TRUE

CallFromText == InputIsStr /\ Return("from_text", from_text(input))

CallFromStr == InputIsStr /\ Return("from_str", from_str(input))

CallTryFromStr == InputIsStr /\ Return("try_from_str", try_from_str(input))

CallTryFromString ==
    InputIsStr /\ Return("try_from_string", try_from_string(input))

CallFromTextAscii ==
    InputIsStr /\ Return("from_text_ascii", from_text_ascii(input))

CallFromBytes == Return("from_bytes", from_bytes(input))

CallTryFromBytes == Return("try_from_bytes", try_from_bytes(input))

CallFromBytesAscii == Return("from_bytes_ascii", from_bytes_ascii(input))

CallFromBytesRaw == Return("from_bytes_raw", from_bytes_raw(input))

UseROOT == Return("ROOT", Ok(ROOT))

UseEMPTY == Return("EMPTY", Ok(EMPTY))

CallLabels ==
    /\ pc = "returned" /\ result.tag = "Ok"
    /\ "labels" \notin called
    /\ lbls' = labels(result.value)
    /\ called' = called \cup {"labels"}
    /\ UNCHANGED <<input, pc, op, result, absolute, again>>

CallIsAbsolute ==
    /\ pc = "returned" /\ result.tag = "Ok"
    /\ "is_absolute" \notin called
    /\ absolute' = is_absolute(result.value)
    /\ called' = called \cup {"is_absolute"}
    /\ UNCHANGED <<input, pc, op, result, lbls, again>>

Revalidate ==
    /\ pc = "returned" /\ result.tag = "Ok"
    /\ called = {"labels", "is_absolute"}
    /\ again' = from_bytes(result.value)
    /\ called' = called \cup {"from_bytes"}
    /\ UNCHANGED <<input, pc, op, result, lbls, absolute>>

Next ==
    \/ CallFromText
    \/ CallFromStr
    \/ CallTryFromStr
    \/ CallTryFromString
    \/ CallFromTextAscii
    \/ CallFromBytes
    \/ CallTryFromBytes
    \/ CallFromBytesAscii
    \/ CallFromBytesRaw
    \/ UseROOT
    \/ UseEMPTY
    \/ CallLabels
    \/ CallIsAbsolute
    \/ Revalidate

Spec == Init /\ [][Next]_vars

\* ------------------------------------------------------------------------
\* Vocabulary of the properties, stated on the bytes themselves
\* ------------------------------------------------------------------------

Returned == pc = "returned"

Min(S) == CHOOSE p \in S : \A q \in S : p <= q

\* Positions of the separators of v
Dots(v) == {p \in 1..Len(v) : v[p] = DOT}

\* Positions where a label of v starts (an empty final label starts at Len(v) + 1)
Starts(v) == {1} \cup {p + 1 : p \in Dots(v)}

\* Length of the label of v that starts at p
LabelLenAt(v, p) ==
    LET after == {q \in Dots(v) : q >= p}
    IN  (IF after = {} THEN Len(v) + 1 ELSE Min(after)) - p

LabelAt(v, p) == SubSeq(v, p, p + LabelLenAt(v, p) - 1)

\* Starts of the empty labels that are not the final label
EmptyNonFinal(v) == {p \in Starts(v) : p <= Len(v) /\ v[p] = DOT}

\* Starts of the labels of 64 bytes or more
TooLong(v) == {p \in Starts(v) : LabelLenAt(v, p) >= 64}

\* Zero-based index of the label that starts at p
IndexOf(v, p) == Cardinality({q \in Dots(v) : q < p})

\* The Name invariant: at most 255 bytes, labels of at most 63 bytes, no
\* empty label but possibly the final one
NameInvariant(v) ==
    /\ Len(v) <= 255
    /\ TooLong(v) = {}
    /\ EmptyNonFinal(v) = {}

RECURSIVE JoinWithDots(_, _)
JoinWithDots(ls, i) ==
    IF i > Len(ls) THEN <<>>
    ELSE (IF i > 1 THEN <<DOT>> ELSE <<>>) \o ls[i] \o JoinWithDots(ls, i + 1)

\* The codec's output for the text given to from_text
Normalized == domain_to_ascii(input)

FromTextNormalized ==
    /\ Returned
    /\ op = "from_text"
    /\ Normalized.ok

\* ------------------------------------------------------------------------
\* Properties
\* ------------------------------------------------------------------------

\* C1: every Name a checked construction path returns as Ok is at most 255
\* bytes long, has no label longer than 63 bytes and no empty label other
\* than possibly the final one.
C1_CheckedNameSatisfiesInvariant ==
    (Returned /\ op \in CheckedPaths /\ result.tag = "Ok")
        => NameInvariant(result.value)

C1_Witness ==
    /\ Returned
    /\ op = "try_from_bytes"
    /\ result.tag = "Ok"
    /\ Len(result.value) = 255
    /\ result.value # input

\* A text of non-empty labels of at most 63 bytes, at most 255 bytes in all,
\* with or without a trailing '.', that the codec leaves as it is
ValidText(t) ==
    /\ t # <<>>
    /\ IsAscii(t)
    /\ NameInvariant(t)
    /\ domain_to_ascii(t) = [ok |-> TRUE, text |-> t]

\* C2: from_text succeeds on every valid text the codec leaves unchanged,
\* and is_absolute() of the Name is true exactly when the text ends with '.'.
C2_ValidTextParsesAndAbsoluteMatches ==
    (Returned /\ op = "from_text" /\ ValidText(input))
        => /\ result.tag = "Ok"
           /\ ("is_absolute" \in called
                 => (absolute <=> input[Len(input)] = DOT))

C2_Witness ==
    /\ Returned
    /\ op = "from_text"
    /\ ValidText(input)
    /\ \E p \in Starts(input) : LabelLenAt(input, p) = 63
    /\ input[Len(input)] = DOT
    /\ result.tag = "Ok"
    /\ "is_absolute" \in called
    /\ absolute

\* C3: the single separator "." is valid: from_bytes_ascii and from_text
\* return Ok on it, with a Name equal to ROOT.
C3_SingleSeparatorIsRoot ==
    (Returned /\ op \in {"from_bytes_ascii", "from_text"} /\ input = <<DOT>>)
        => result = Ok(ROOT)

\* C4 as stated: whenever the ASCII form has an empty label that is not the
\* final one, from_text fails with EmptyLabel(index of the first such label).
C4_EmptyLabelAlwaysReported ==
    (FromTextNormalized /\ EmptyNonFinal(Normalized.text) # {})
        => result = ErrPosition("EmptyLabel",
                        IndexOf(Normalized.text, Min(EmptyNonFinal(Normalized.text))))

\* The first empty non-final label of v is what the checks meet first
EmptyLabelComesFirst(v) ==
    /\ Len(v) <= 255
    /\ EmptyNonFinal(v) # {}
    /\ \A p \in TooLong(v) : p > Min(EmptyNonFinal(v))

\* C4: when the ASCII form is at most 255 bytes long and no label before its
\* first empty non-final label is longer than 63 bytes, from_text fails with
\* EmptyLabel(zero-based index of that label).
C4_EmptyLabelReportedWhenFirst ==
    (FromTextNormalized /\ EmptyLabelComesFirst(Normalized.text))
        => result = ErrPosition("EmptyLabel",
                        IndexOf(Normalized.text, Min(EmptyNonFinal(Normalized.text))))

C4_Witness ==
    /\ FromTextNormalized
    /\ EmptyLabelComesFirst(Normalized.text)
    /\ TooLong(Normalized.text) # {}
    /\ result = ErrPosition("EmptyLabel", 2)

\* C5 as stated: whenever the ASCII form has a label of 64 bytes or more,
\* from_text fails with LabelTooLong carrying the leftmost such label.
C5_LongLabelAlwaysReported ==
    (FromTextNormalized /\ TooLong(Normalized.text) # {})
        => result = ErrString("LabelTooLong",
                        LabelAt(Normalized.text, Min(TooLong(Normalized.text))))

\* The leftmost label of 64 bytes or more of v is what the checks meet first
LongLabelComesFirst(v) ==
    /\ Len(v) <= 255
    /\ TooLong(v) # {}
    /\ \A p \in EmptyNonFinal(v) : p > Min(TooLong(v))

\* C5: when the ASCII form is at most 255 bytes long and no empty non-final
\* label precedes its leftmost label of 64 bytes or more, from_text fails
\* with LabelTooLong carrying exactly that label.
C5_LongLabelReportedWhenFirst ==
    (FromTextNormalized /\ LongLabelComesFirst(Normalized.text))
        => result = ErrString("LabelTooLong",
                        LabelAt(Normalized.text, Min(TooLong(Normalized.text))))

C5_Witness ==
    /\ FromTextNormalized
    /\ LongLabelComesFirst(Normalized.text)
    /\ Cardinality(TooLong(Normalized.text)) > 1
    /\ Min(TooLong(Normalized.text)) > 1
    /\ result.kind = "LabelTooLong"
    /\ Len(result.value) = 64

\* C6 as stated: when the codec's output is longer than 255 bytes, from_text
\* fails with NameTooLarge carrying the text it was given.
C6_NameTooLargeCarriesInput ==
    (FromTextNormalized /\ Len(Normalized.text) > 255)
        => result = ErrString("NameTooLarge", input)

\* C6: when the codec's output is longer than 255 bytes, from_text fails
\* with NameTooLarge carrying the codec's output, which is the text it was
\* given only when the codec left that text unchanged.
C6_NameTooLargeCarriesNormalized ==
    (FromTextNormalized /\ Len(Normalized.text) > 255)
        => result = ErrString("NameTooLarge", Normalized.text)

C6_Witness ==
    /\ FromTextNormalized
    /\ Len(Normalized.text) > 255
    /\ Normalized.text # input
    /\ result.kind = "NameTooLarge"
    /\ result.value # input

\* C7 as stated: from_bytes_raw, from_bytes_ascii and from_text_ascii return
\* Ok with the input bytes for every input.
C7_TrustingConstructorsNeverFail ==
    (Returned /\ op \in {"from_bytes_raw", "from_bytes_ascii", "from_text_ascii"})
        => result = Ok(input)

\* C7: from_bytes_raw returns Ok with the input bytes for every input;
\* from_bytes_ascii and from_text_ascii return Ok with the input bytes when
\* the input satisfies the Name invariant, and NameTooLarge, LabelTooLong or
\* EmptyLabel when it does not.
C7_OnlyRawNeverFails ==
    /\ (Returned /\ op = "from_bytes_raw") => result = Ok(input)
    /\ (Returned /\ op \in {"from_bytes_ascii", "from_text_ascii"})
          => IF NameInvariant(input)
             THEN result = Ok(input)
             ELSE /\ result.tag = "Err"
                  /\ result.kind \in {"NameTooLarge", "LabelTooLong", "EmptyLabel"}

C7_Witness ==
    /\ Returned
    /\ op = "from_bytes_raw"
    /\ Len(input) > 255
    /\ TooLong(input) # {}
    /\ result = Ok(input)

\* C8: labels() gives the segments of the byte value between the separators,
\* left to right: one more label than there are '.' bytes, no label holds a
\* '.', the labels joined with '.' are the byte value, and the last label of
\* a name that ends with '.' is empty.
C8_LabelsAreTheSegments ==
    (Returned /\ "labels" \in called)
        => /\ Len(lbls) = Cardinality(Dots(result.value)) + 1
           /\ \A i \in 1..Len(lbls) : Dots(lbls[i]) = {}
           /\ JoinWithDots(lbls, 1) = result.value
           /\ (result.value # <<>> /\ result.value[Len(result.value)] = DOT)
                 => lbls[Len(lbls)] = <<>>

C8_Witness ==
    /\ Returned
    /\ "labels" \in called
    /\ result.value = <<LowerX, DOT, LowerX, DOT>>
    /\ lbls = << <<LowerX>>, <<LowerX>>, <<>> >>

\* C9 as stated: for a Name of a checked constructor, ROOT or EMPTY,
\* is_absolute() is true exactly when the last label of labels() is empty.
C9_AbsoluteIffLastLabelEmpty ==
    (/\ Returned
     /\ op \in CheckedPaths \cup {"ROOT", "EMPTY"}
     /\ {"labels", "is_absolute"} \subseteq called)
        => (absolute <=> lbls[Len(lbls)] = <<>>)

\* C9: for a Name of a checked constructor, ROOT or EMPTY, is_absolute() is
\* true exactly when the byte value is not empty and the last label of
\* labels() is empty.
C9_AbsoluteIffNonEmptyAndLastLabelEmpty ==
    (/\ Returned
     /\ op \in CheckedPaths \cup {"ROOT", "EMPTY"}
     /\ {"labels", "is_absolute"} \subseteq called)
        => (absolute <=> (result.value # <<>> /\ lbls[Len(lbls)] = <<>>))

C9_Witness ==
    /\ Returned
    /\ op = "ROOT"
    /\ {"labels", "is_absolute"} \subseteq called
    /\ absolute
    /\ lbls[Len(lbls)] = <<>>

\* C10: from_bytes on the byte value of a Name that a checked constructor
\* returned succeeds and returns a Name with the same byte value.
C10_RevalidationIsIdempotent ==
    (Returned /\ op \in CheckedPaths /\ "from_bytes" \in called)
        => again = Ok(result.value)

C10_Witness ==
    /\ Returned
    /\ op = "from_text"
    /\ "from_bytes" \in called
    /\ result.value # input
    /\ Len(result.value) = 255
    /\ again = result

====
